---- MODULE Spec2Model ----
(***************************************************************************)
(* Model of 5_Prototypowanie/wykład_streamlit/app.py: the market price     *)
(* survey scrape_market_prices (with parse_price) and the Streamlit script *)
(* main that runs it from the sidebar button.                              *)
(*                                                                         *)
(* Spec     one call of scrape_market_prices, one step per loop position.  *)
(* AppSpec  the script main over reruns of one browser session; the call   *)
(*          of scrape_market_prices is one step whose result is drawn from *)
(*          ScrapeReturns, the mappings Spec shows the call can return     *)
(*          (ReturnInScrapeReturns), or which raises.                      *)
(*                                                                         *)
(* Text is a sequence of one-character tokens; "nbsp" stands for '\xa0'.   *)
(* A number produced by a true division is a pair <<numerator,             *)
(* denominator>> in lowest terms. An optional value is <<>> (None) or <<v>>.*)
(***************************************************************************)
EXTENDS Integers, Sequences, FiniteSets, TLC

\* ------------------------------------------------------------------ bounds

\* Largest page budget `pages` a call of scrape_market_prices is given.
MaxPages == 3

\* Largest number of listing entries on one result page.
MaxListings == 1

\* Largest number of script runs (reruns) of one browser session.
MaxRuns == 3

\* --------------------------------------------------------------- constants

\* The keys of LOCALITY_URL_MAP in insertion order (the order of .items()).
LOCALITY_URL_MAP ==
    <<"Lodz Baluty", "Lodz Gorna", "Lodz Srodmiescie", "Lodz Widzew", "Lodz Polesie">>

LocalityKeys == {LOCALITY_URL_MAP[i] : i \in 1..Len(LOCALITY_URL_MAP)}

DEFAULT_MARKET_PRICES ==
    [l \in LocalityKeys |->
        CASE l = "Lodz Baluty" -> 380000
          [] l = "Lodz Gorna" -> 420000
          [] l = "Lodz Srodmiescie" -> 500000
          [] l = "Lodz Widzew" -> 450000
          [] l = "Lodz Polesie" -> 400000]

\* The second argument of DEFAULT_MARKET_PRICES.get(locality, 400000).
FallbackPrice == 400000

\* ------------------------------------------------------------ pure helpers

Digits == {"0", "1", "2", "3", "4", "5", "6", "7", "8", "9"}

Whitespace == {" ", "nbsp"}

DigitVal(c) ==
    CASE c = "0" -> 0 [] c = "1" -> 1 [] c = "2" -> 2 [] c = "3" -> 3
      [] c = "4" -> 4 [] c = "5" -> 5 [] c = "6" -> 6 [] c = "7" -> 7
      [] c = "8" -> 8 [] c = "9" -> 9

\* text with every token of `drop` removed (str.replace(c, ''), re.sub).
RECURSIVE Remove(_, _)
Remove(text, drop) ==
    IF text = <<>> THEN <<>>
    ELSE IF Head(text) \in drop THEN Remove(Tail(text), drop)
    ELSE <<Head(text)>> \o Remove(Tail(text), drop)

RECURSIVE LStrip(_)
LStrip(text) ==
    IF text # <<>> /\ Head(text) \in Whitespace THEN LStrip(Tail(text)) ELSE text

RECURSIVE RStrip(_)
RStrip(text) ==
    IF text # <<>> /\ text[Len(text)] \in Whitespace
    THEN RStrip(SubSeq(text, 1, Len(text) - 1))
    ELSE text

\* float(price_clean) of a non-empty digit string.
RECURSIVE DigitsToNumber(_)
DigitsToNumber(digits) ==
    IF digits = <<>> THEN 0
    ELSE 10 * DigitsToNumber(SubSeq(digits, 1, Len(digits) - 1))
         + DigitVal(digits[Len(digits)])

\* parse_price: None for an empty text or one without digits, else the number
\* its digits spell.
parse_price(price_text) ==
    IF price_text = <<>> THEN <<>>
    ELSE LET stripped == Remove(Remove(price_text, {"nbsp"}), {" "})
             price_clean == SelectSeq(stripped, LAMBDA c : c \in Digits)
         IN  IF price_clean # <<>> THEN <<DigitsToNumber(price_clean)>> ELSE <<>>

\* price_total_tag.get_text(strip=True).replace('\xa0', '')
TagText(raw) == Remove(RStrip(LStrip(raw)), {"nbsp"})

\* Python truthiness of parse_price's result in `if price:`.
Truthy(price) == price # <<>> /\ price[1] # 0

RECURSIVE Sum(_)
Sum(s) == IF s = <<>> THEN 0 ELSE Head(s) + Sum(Tail(s))

RECURSIVE GCD(_, _)
GCD(a, b) == IF b = 0 THEN a ELSE GCD(b, a % b)

\* n / d as a number: the pair in lowest terms.
Ratio(n, d) == LET g == GCD(n, d) IN <<n \div g, d \div g>>

\* sum(prices) / len(prices) of a non-empty list.
Average(prices) == Ratio(Sum(prices), Len(prices))

\* Variant of DefaultFor: the table is never consulted, only the fallback.
DefaultForFallbackOnly(locality) == Ratio(FallbackPrice, 1)

\* DEFAULT_MARKET_PRICES.get(locality, 400000)
DefaultFor(locality) ==
    IF locality \in DOMAIN DEFAULT_MARKET_PRICES
    THEN Ratio(DEFAULT_MARKET_PRICES[locality], 1)
    ELSE Ratio(FallbackPrice, 1)

\* ------------------------------------------------------ the site's content

\* The raw text of a listing's price node.
PriceTexts ==
    { <<>>,
      <<"z", "l">>,
      <<" ", "0", " ", "z", "l">>,
      <<"1", "0", "0", "nbsp", "z", "l", " ">> }

\* A listing entry: <<>> when it has no price node, else <<raw text>>.
Listings == {<<>>} \cup {<<t>> : t \in PriceTexts}

RECURSIVE SeqsUpTo(_, _)
SeqsUpTo(S, n) ==
    IF n = 0 THEN {<<>>}
    ELSE LET shorter == SeqsUpTo(S, n - 1)
         IN  shorter \cup {Append(s, x) : s \in {t \in shorter : Len(t) = n - 1}, x \in S}

\* The result pages a fetch can deliver: soup.select('section.search-results__item').
Documents == UNION {[1..n -> Listings] : n \in 0..MaxListings}

\* price = parse_price(price_text) for the text of a listing's price node,
\* tabulated over the texts the site delivers.
PriceOf == [raw \in PriceTexts |-> parse_price(TagText(raw))]

\* The prices one result page adds to `prices` (the loop over listings). No
\* call of the loop body raises on a parsed page, so the inner except clause
\* has no case.
RECURSIVE ExtractPrices(_)
ExtractPrices(listings) ==
    IF listings = <<>> THEN <<>>
    ELSE LET item == Head(listings)
             price == IF item # <<>> THEN PriceOf[item[1]] ELSE <<>>
         IN  (IF Truthy(price) THEN price ELSE <<>>) \o ExtractPrices(Tail(listings))

\* Every number parse_price returns for a listing of the page (history).
RECURSIVE ParsedPrices(_)
ParsedPrices(listings) ==
    IF listings = <<>> THEN <<>>
    ELSE LET item == Head(listings)
         IN  (IF item # <<>> THEN PriceOf[item[1]] ELSE <<>>)
             \o ParsedPrices(Tail(listings))

\* ------------------------------------------------------------------- state

VARIABLES
    \* scrape_market_prices
    pc,             \* position in scrape_market_prices
    pages,          \* the argument `pages`
    has_callback,   \* whether progress_callback was supplied
    idx,            \* enumerate's index of the locality being processed
    page_num,       \* the inner loop's page number
    prices,         \* the list `prices` of the current locality
    market_prices,  \* the dict `market_prices` being built
    emitted,        \* the fractions passed to progress_callback so far
    \* history of the current call (not read by the program)
    calls,          \* the pages requested for the current locality, and how
                    \* many of the requests raised a RequestException
    lastGet,        \* the latest session.get call of the run, <<>> before it
    slept,          \* whether time.sleep ran since the latest session.get
    parsed,         \* sum and count of the numbers parse_price returned for
                    \* the listings of the current locality
    \* main
    mpc,            \* position of the script run, "idle" between runs
    session,        \* st.session_state: a function on the keys present
    now,            \* datetime.now(), counted in script runs
    interaction,    \* the widget interaction that started the script run
    locality,       \* the value of the "Dzielnica" selectbox
    handler,        \* how this run left the button handler's try/except
    sidebar,        \* the status messages this run has put in the sidebar
    market_avg_price, \* the market price this run displays, <<>> when none
    lastGood        \* the latest mapping a survey returned to main (history)

scrapeVars ==
    <<pc, pages, has_callback, idx, page_num, prices, market_prices, emitted,
      calls, lastGet, slept, parsed>>

mainVars ==
    <<mpc, session, now, interaction, locality, handler, sidebar,
      market_avg_price, lastGood>>

vars == <<scrapeVars, mainVars>>

total_locations == Len(LOCALITY_URL_MAP)

EmptyDict == [k \in {} |-> <<0, 1>>]

\* d[key] = value
Assign(d, key, value) ==
    [k \in DOMAIN d \cup {key} |-> IF k = key THEN value ELSE d[k]]

\* The locality of enumerate index i (0-based).
LocalityAt(i) == LOCALITY_URL_MAP[i + 1]

\* (idx + 0.1) / total_locations
StartFraction(i) == Ratio(10 * i + 1, 10 * total_locations)

\* Variant of EndFraction: idx / total_locations.
EndFractionOffByOne(i) == Ratio(i, total_locations)

\* (idx + 1) / total_locations
EndFraction(i) == Ratio(i + 1, total_locations)

\* progress_callback(fraction, ...) when a callback was supplied.
Emit(fraction) ==
    emitted' = IF has_callback THEN Append(emitted, fraction) ELSE emitted

\* History of one session.get(url) for page page_num of locality idx. outcome
\* is "failed" (a RequestException), "raised" (another exception) or "page"
\* (a page was delivered); doc is the page's listing entries.
RecordGet(outcome, doc) ==
    LET extracted == ExtractPrices(doc)
        numbers == ParsedPrices(doc)
    IN  /\ calls' = [tried |-> Append(calls.tried, page_num),
                     failed |-> calls.failed + (IF outcome = "failed" THEN 1 ELSE 0)]
        /\ lastGet' = <<[idx |-> idx, page |-> page_num, outcome |-> outcome,
                         listings |-> Len(doc),
                         extracted |-> Len(extracted),
                         kept |-> prices,
                         first |-> (lastGet = <<>>),
                         delayed |-> slept]>>
        /\ slept' = FALSE
        /\ parsed' = [sum |-> parsed.sum + Sum(numbers),
                      count |-> parsed.count + Len(numbers)]

NoCalls == [tried |-> <<>>, failed |-> 0]

NoneParsed == [sum |-> 0, count |-> 0]

InitScrape ==
    /\ pc = "for_locality"
    /\ pages \in 0..MaxPages
    /\ has_callback \in BOOLEAN
    /\ idx = 0
    /\ page_num = 0
    /\ prices = <<>>
    /\ market_prices = EmptyDict
    /\ emitted = <<>>
    /\ calls = NoCalls
    /\ lastGet = <<>>
    /\ slept = FALSE
    /\ parsed = NoneParsed

\* --------------------------------------------------- scrape_market_prices

\* The outer loop takes the next locality: the "starting" progress event,
\* prices = [], and the inner loop's first page.
StartLocality ==
    /\ pc = "for_locality"
    /\ idx < total_locations
    /\ Emit(StartFraction(idx))
    /\ prices' = <<>>
    /\ page_num' = 1
    /\ calls' = NoCalls
    /\ parsed' = NoneParsed
    /\ pc' = "for_page"
    /\ UNCHANGED <<pages, has_callback, idx, market_prices, lastGet, slept>>

\* Variant of FetchFails: the RequestException ends the locality (`break`).
FetchFailsBreak ==
    /\ pc = "for_page"
    /\ page_num <= pages
    /\ RecordGet("failed", <<>>)
    /\ pc' = "aggregate"
    /\ UNCHANGED <<pages, has_callback, idx, page_num, prices, market_prices, emitted>>

\* session.get or raise_for_status raises a requests.RequestException:
\* `continue` with the next page.
FetchFails ==
    /\ pc = "for_page"
    /\ page_num <= pages
    /\ RecordGet("failed", <<>>)
    /\ page_num' = page_num + 1
    /\ UNCHANGED <<pc, pages, has_callback, idx, prices, market_prices, emitted>>

\* The body of the try raises an exception that is no RequestException: no
\* handler in scrape_market_prices catches it.
FetchRaisesOther ==
    /\ pc = "for_page"
    /\ page_num <= pages
    /\ RecordGet("raised", <<>>)
    /\ pc' = "raised"
    /\ UNCHANGED <<pages, has_callback, idx, page_num, prices, market_prices, emitted>>

\* Variant of FetchNoListings: `continue` in place of `break`.
FetchNoListingsContinue ==
    /\ pc = "for_page"
    /\ page_num <= pages
    /\ RecordGet("page", <<>>)
    /\ page_num' = page_num + 1
    /\ UNCHANGED <<pc, pages, has_callback, idx, prices, market_prices, emitted>>

\* The page has no listing entries: `break`.
FetchNoListings ==
    /\ pc = "for_page"
    /\ page_num <= pages
    /\ RecordGet("page", <<>>)
    /\ pc' = "aggregate"
    /\ UNCHANGED <<pages, has_callback, idx, page_num, prices, market_prices, emitted>>

\* Variant of FetchListings: `break` when the page added no price.
FetchListingsBreakWhenNoPrice ==
    /\ pc = "for_page"
    /\ page_num <= pages
    /\ \E doc \in Documents \ {<<>>} :
        /\ RecordGet("page", doc)
        /\ prices' = prices \o ExtractPrices(doc)
        /\ pc' = IF ExtractPrices(doc) = <<>> THEN "aggregate" ELSE "sleep"
    /\ UNCHANGED <<pages, has_callback, idx, page_num, market_prices, emitted>>

\* The page has listing entries: their prices are appended, then the delay.
FetchListings ==
    /\ pc = "for_page"
    /\ page_num <= pages
    /\ \E doc \in Documents \ {<<>>} :
        /\ RecordGet("page", doc)
        /\ prices' = prices \o ExtractPrices(doc)
    /\ pc' = "sleep"
    /\ UNCHANGED <<pages, has_callback, idx, page_num, market_prices, emitted>>

\* time.sleep(0.5), then the inner loop's next page.
Sleep ==
    /\ pc = "sleep"
    /\ slept' = TRUE
    /\ page_num' = page_num + 1
    /\ pc' = "for_page"
    /\ UNCHANGED <<pages, has_callback, idx, prices, market_prices, emitted,
                   calls, lastGet, parsed>>

\* range(1, pages + 1) is exhausted.
PagesExhausted ==
    /\ pc = "for_page"
    /\ page_num > pages
    /\ pc' = "aggregate"
    /\ UNCHANGED <<pages, has_callback, idx, page_num, prices, market_prices,
                   emitted, calls, lastGet, slept, parsed>>

\* Variant of Aggregate: no entry is stored when prices is empty.
AggregateSkipsEmpty ==
    /\ pc = "aggregate"
    /\ market_prices' =
        IF prices # <<>>
        THEN Assign(market_prices, LocalityAt(idx), Average(prices))
        ELSE market_prices
    /\ Emit(EndFraction(idx))
    /\ idx' = idx + 1
    /\ pc' = "for_locality"
    /\ UNCHANGED <<pages, has_callback, page_num, prices, calls, lastGet, slept, parsed>>

\* After the inner loop: the mean of the prices or the default, the
\* "completed" progress event, and on to the next locality.
Aggregate ==
    /\ pc = "aggregate"
    /\ market_prices' =
        Assign(market_prices, LocalityAt(idx),
               IF prices # <<>> THEN Average(prices) ELSE DefaultFor(LocalityAt(idx)))
    /\ Emit(EndFraction(idx))
    /\ idx' = idx + 1
    /\ pc' = "for_locality"
    /\ UNCHANGED <<pages, has_callback, page_num, prices, calls, lastGet, slept, parsed>>

\* return market_prices
Return ==
    /\ pc = "for_locality"
    /\ idx = total_locations
    /\ pc' = "returned"
    /\ UNCHANGED <<pages, has_callback, idx, page_num, prices, market_prices,
                   emitted, calls, lastGet, slept, parsed>>

\* ------------------------------------------------------------------- main

\* pages=8 in main's call of scrape_market_prices.
MainPages == 8

\* The prices a listing can add to `prices`.
ListingPrices ==
    {p[1] : p \in {q \in {parse_price(TagText(t)) : t \in PriceTexts} : Truthy(q)}}

\* The means scrape_market_prices can compute for a locality.
Averages ==
    {Average(s) : s \in SeqsUpTo(ListingPrices, MaxPages * MaxListings) \ {<<>>}}

\* The mappings a call of scrape_market_prices can return: for every
\* locality a mean or that locality's default.
ScrapeReturns ==
    {[l \in LocalityKeys |-> IF c[l] = <<>> THEN DefaultFor(l) ELSE c[l]] :
        c \in [LocalityKeys -> Averages \cup {<<>>}]}

\* DEFAULT_MARKET_PRICES.copy()
DefaultsCopy == [l \in LocalityKeys |-> DefaultFor(l)]

\* st.session_state.<key> = value, when the key is not in the session yet.
SetDefault(d, key, value) == IF key \in DOMAIN d THEN d ELSE Assign(d, key, value)

InitMain ==
    /\ mpc = "idle"
    /\ session = EmptyDict
    /\ now = 0
    /\ interaction = "none"
    /\ locality = LOCALITY_URL_MAP[1]
    /\ handler = "none"
    /\ sidebar = {}
    /\ market_avg_price = <<>>
    /\ lastGood = [prices |-> DefaultsCopy, at |-> <<>>, failedSince |-> FALSE]

\* A widget interaction reruns the script: one of the two buttons is pressed,
\* or another locality is selected.
Rerun ==
    /\ mpc = "idle"
    /\ now < MaxRuns
    /\ \E i \in {"scrape", "calc", "select"}, l \in LocalityKeys :
        /\ i # "select" => l = locality
        /\ interaction' = i
        /\ locality' = l
    /\ now' = now + 1
    /\ handler' = "none"
    /\ sidebar' = {}
    /\ market_avg_price' = <<>>
    /\ mpc' = "init"
    /\ UNCHANGED <<session, lastGood>>

\* Initialisation of the session's keys that are not there yet.
InitSession ==
    /\ mpc = "init"
    /\ session' =
        SetDefault(
            SetDefault(
                SetDefault(session, "market_prices", DefaultsCopy),
                "last_scraped", <<>>),
            "scraping_in_progress", FALSE)
    /\ mpc' = "button"
    /\ UNCHANGED <<now, interaction, locality, handler, sidebar, market_avg_price, lastGood>>

\* The sidebar button was pressed: the flag is set and the try is entered.
ButtonPressed ==
    /\ mpc = "button"
    /\ interaction = "scrape"
    /\ session' = Assign(session, "scraping_in_progress", TRUE)
    /\ mpc' = "try"
    /\ UNCHANGED <<now, interaction, locality, handler, sidebar, market_avg_price, lastGood>>

ButtonNotPressed ==
    /\ mpc = "button"
    /\ interaction # "scrape"
    /\ mpc' = "check"
    /\ UNCHANGED <<session, now, interaction, locality, handler, sidebar,
                   market_avg_price, lastGood>>

\* scrape_market_prices returns: the rest of the try block.
SurveyReturns ==
    /\ mpc = "try"
    /\ \E m \in ScrapeReturns :
        /\ session' =
            Assign(
                Assign(
                    Assign(session, "market_prices", m),
                    "last_scraped", <<now>>),
                "scraping_in_progress", FALSE)
        /\ lastGood' = [prices |-> m, at |-> <<now>>, failedSince |-> FALSE]
    /\ sidebar' = sidebar \cup {"success"}
    /\ handler' = "success"
    /\ mpc' = "check"
    /\ UNCHANGED <<now, interaction, locality, market_avg_price>>

\* Variant of SurveyRaises: the except block puts the defaults back.
SurveyRaisesResetsPrices ==
    /\ mpc = "try"
    /\ session' =
        Assign(Assign(session, "market_prices", DefaultsCopy),
               "scraping_in_progress", FALSE)
    /\ lastGood' = [lastGood EXCEPT !.failedSince = TRUE]
    /\ sidebar' = sidebar \cup {"error"}
    /\ handler' = "except"
    /\ mpc' = "check"
    /\ UNCHANGED <<now, interaction, locality, market_avg_price>>

\* Variant of SurveyRaises: the except block leaves the flag set.
SurveyRaisesKeepsFlag ==
    /\ mpc = "try"
    /\ lastGood' = [lastGood EXCEPT !.failedSince = TRUE]
    /\ sidebar' = sidebar \cup {"error"}
    /\ handler' = "except"
    /\ mpc' = "check"
    /\ UNCHANGED <<session, now, interaction, locality, market_avg_price>>

\* scrape_market_prices raises an Exception: the except block. (What is not
\* an Exception, such as the framework's script control, is not modelled.)
SurveyRaises ==
    /\ mpc = "try"
    /\ session' = Assign(session, "scraping_in_progress", FALSE)
    /\ lastGood' = [lastGood EXCEPT !.failedSince = TRUE]
    /\ sidebar' = sidebar \cup {"error"}
    /\ handler' = "except"
    /\ mpc' = "check"
    /\ UNCHANGED <<now, interaction, locality, market_avg_price>>

\* The notice shown while the flag is set, and the caption of the last survey.
CheckInProgress ==
    /\ mpc = "check"
    /\ sidebar' =
        sidebar
        \cup (IF session["scraping_in_progress"] THEN {"info"} ELSE {})
        \cup (IF session["last_scraped"] # <<>> THEN {"caption"} ELSE {})
    /\ mpc' = "calc"
    /\ UNCHANGED <<session, now, interaction, locality, handler, market_avg_price, lastGood>>

\* "Oblicz cene" was pressed: the market price shown beside the prediction.
CalcPressed ==
    /\ mpc = "calc"
    /\ interaction = "calc"
    /\ market_avg_price' =
        <<IF locality \in DOMAIN session["market_prices"]
          THEN session["market_prices"][locality]
          ELSE Ratio(DEFAULT_MARKET_PRICES[locality], 1)>>
    /\ mpc' = "idle"
    /\ UNCHANGED <<session, now, interaction, locality, handler, sidebar, lastGood>>

CalcNotPressed ==
    /\ mpc = "calc"
    /\ interaction # "calc"
    /\ mpc' = "idle"
    /\ UNCHANGED <<session, now, interaction, locality, handler, sidebar,
                   market_avg_price, lastGood>>

\* ---------------------------------------------------------- specifications

Init == InitScrape /\ InitMain

\* One call of scrape_market_prices; main's state is not touched by it.
Next ==
    \/ StartLocality /\ UNCHANGED mainVars
    \/ FetchFails /\ UNCHANGED mainVars
    \/ FetchRaisesOther /\ UNCHANGED mainVars
    \/ FetchNoListings /\ UNCHANGED mainVars
    \/ FetchListings /\ UNCHANGED mainVars
    \/ Sleep /\ UNCHANGED mainVars
    \/ PagesExhausted /\ UNCHANGED mainVars
    \/ Aggregate /\ UNCHANGED mainVars
    \/ Return /\ UNCHANGED mainVars

Spec == Init /\ [][Next]_vars

\* The script main: scrape_market_prices is at its entry as main calls it.
AppInit ==
    /\ InitMain
    /\ pc = "for_locality"
    /\ pages = MainPages
    /\ has_callback = TRUE
    /\ idx = 0
    /\ page_num = 0
    /\ prices = <<>>
    /\ market_prices = EmptyDict
    /\ emitted = <<>>
    /\ calls = NoCalls
    /\ lastGet = <<>>
    /\ slept = FALSE
    /\ parsed = NoneParsed

AppNext ==
    \/ Rerun /\ UNCHANGED scrapeVars
    \/ InitSession /\ UNCHANGED scrapeVars
    \/ ButtonPressed /\ UNCHANGED scrapeVars
    \/ ButtonNotPressed /\ UNCHANGED scrapeVars
    \/ SurveyReturns /\ UNCHANGED scrapeVars
    \/ SurveyRaises /\ UNCHANGED scrapeVars
    \/ CheckInProgress /\ UNCHANGED scrapeVars
    \/ CalcPressed /\ UNCHANGED scrapeVars
    \/ CalcNotPressed /\ UNCHANGED scrapeVars

AppSpec == AppInit /\ [][AppNext]_vars

\* ------------------------------------------------------------- properties

\* A locality has just been aggregated: prices, calls and parsed are still its.
Completed == pc \in {"for_locality", "returned"} /\ idx >= 1

\* The locality that has just been aggregated.
Done == LocalityAt(idx - 1)

\* The static default of a locality, as a number.
TableDefault(l) == <<DEFAULT_MARKET_PRICES[l], 1>>

\* f <= g for two fractions.
FractionLeq(f, g) == f[1] * g[2] <= g[1] * f[2]

\* Every mapping one call returns is one of those main's model draws from.
ReturnInScrapeReturns == pc = "returned" => market_prices \in ScrapeReturns

\* C1: whatever the pages delivered and whatever the page budget, the mapping
\* scrape_market_prices returns has exactly the keys of the locality table.
C1_ExactlyKnownKeys ==
    pc = "returned" =>
        /\ DOMAIN market_prices = LocalityKeys
        /\ DOMAIN market_prices = DOMAIN DEFAULT_MARKET_PRICES

\* C1 witness: a call with the largest budget has returned; its last request
\* failed and some locality got a scraped mean.
C1_Witness ==
    /\ pc = "returned"
    /\ pages = MaxPages
    /\ lastGet # <<>>
    /\ lastGet[1].outcome = "failed"
    /\ \E l \in DOMAIN market_prices : market_prices[l] # TableDefault(l)

\* C2: when every request of a locality failed with a RequestException, all
\* of the pages 1..pages were requested, in order, and the locality's value
\* is its entry of DEFAULT_MARKET_PRICES.
C2_AllFailedGivesDefault ==
    (Completed /\ calls.failed = Len(calls.tried)) =>
        /\ calls.tried = [i \in 1..pages |-> i]
        /\ market_prices[Done] = TableDefault(Done)

\* C2 witness: the second locality was aggregated after all of its MaxPages
\* requests failed.
C2_Witness ==
    /\ Completed
    /\ Done = LOCALITY_URL_MAP[2]
    /\ pages = MaxPages
    /\ calls.failed = pages
    /\ Len(calls.tried) = pages

\* The latest request delivered a page without listing entries.
ZeroListingsSeen ==
    lastGet # <<>> /\ lastGet[1].outcome = "page" /\ lastGet[1].listings = 0

\* C3: after a delivered page without listing entries no further page of the
\* locality is requested (the next request is page 1 of the next locality),
\* and the locality's value is the mean of the prices collected before it.
C3_ZeroListingsEndsLocality ==
    /\ []((Completed /\ ZeroListingsSeen /\ lastGet[1].idx = idx - 1) =>
            /\ prices = lastGet[1].kept
            /\ market_prices[Done] =
                IF lastGet[1].kept # <<>>
                THEN Average(lastGet[1].kept)
                ELSE TableDefault(Done))
    /\ [][(ZeroListingsSeen /\ lastGet' # lastGet) =>
            /\ lastGet'[1].idx = lastGet[1].idx + 1
            /\ lastGet'[1].page = 1]_vars

\* C3 witness: a locality ended on an empty page before its budget was used
\* up, with prices from an earlier page.
C3_Witness ==
    /\ Completed
    /\ ZeroListingsSeen
    /\ lastGet[1].idx = idx - 1
    /\ lastGet[1].page < pages
    /\ lastGet[1].kept # <<>>
    /\ market_prices[Done] = Average(lastGet[1].kept)

\* C4 (as claimed): a locality's value is the mean of every number that
\* parse_price returned for its listings, the default only when there is none.
C4_MeanOfAllParsed ==
    Completed =>
        market_prices[Done] =
            IF parsed.count > 0
            THEN Ratio(parsed.sum, parsed.count)
            ELSE TableDefault(Done)

\* C5: with a callback, the fractions passed to it lie in [0,1], never
\* decrease, and the last one of a call that returned is 1.
C5_ProgressMonotoneToOne ==
    has_callback =>
        /\ \A i \in 1..Len(emitted) :
            FractionLeq(<<0, 1>>, emitted[i]) /\ FractionLeq(emitted[i], <<1, 1>>)
        /\ \A i \in 1..(Len(emitted) - 1) : FractionLeq(emitted[i], emitted[i + 1])
        /\ pc = "returned" => (emitted # <<>> /\ emitted[Len(emitted)] = <<1, 1>>)

\* C5 witness: a call with a callback returned after a failed request, with
\* two events per locality.
C5_Witness ==
    /\ pc = "returned"
    /\ has_callback
    /\ Len(emitted) = 2 * total_locations
    /\ lastGet # <<>>
    /\ lastGet[1].outcome = "failed"

\* The latest request failed with a RequestException on a page before the last.
FailedBeforeLastPage ==
    lastGet # <<>> /\ lastGet[1].outcome = "failed" /\ lastGet[1].page < pages

\* C6: a RequestException on page k < pages is followed by the request of
\* page k+1 of the same locality, with the prices collected so far; no page
\* of a locality is requested twice.
C6_FailureContinuesWithNextPage ==
    /\ [](FailedBeforeLastPage =>
            /\ pc = "for_page"
            /\ idx = lastGet[1].idx
            /\ page_num = lastGet[1].page + 1
            /\ prices = lastGet[1].kept)
    /\ [](\A i, j \in 1..Len(calls.tried) : i < j => calls.tried[i] < calls.tried[j])
    /\ [][(FailedBeforeLastPage /\ lastGet' # lastGet) =>
            /\ lastGet'[1].idx = lastGet[1].idx
            /\ lastGet'[1].page = lastGet[1].page + 1
            /\ lastGet'[1].kept = lastGet[1].kept]_vars

\* C6 witness: page 3 was requested right after page 2 failed, with the
\* prices of page 1 still collected.
C6_Witness ==
    /\ lastGet # <<>>
    /\ lastGet[1].page = 3
    /\ calls.tried = <<1, 2, 3>>
    /\ calls.failed = 1
    /\ lastGet[1].outcome = "page"
    /\ ~lastGet[1].delayed
    /\ lastGet[1].kept # <<>>

\* C7 (as claimed): time.sleep ran between any two consecutive requests.
C7_DelayBetweenFetches ==
    (lastGet # <<>> /\ ~lastGet[1].first) => lastGet[1].delayed

\* C9 (as claimed): after a delivered page that added no price, no further
\* page of the locality is requested.
C9_NoPriceEndsLocality ==
    [][(/\ lastGet # <<>>
        /\ lastGet[1].outcome = "page"
        /\ lastGet[1].extracted = 0
        /\ lastGet' # lastGet) =>
            lastGet'[1].idx # lastGet[1].idx]_vars

\* C9 (amended): a delivered page ends the pagination of its locality exactly
\* when it has no listing entries; after a page with listing entries, also
\* when none of them added a price, the next page is requested while the
\* budget lasts.
C9_OnlyZeroListingsEndLocality ==
    [][(lastGet # <<>> /\ lastGet[1].outcome = "page" /\ lastGet' # lastGet) =>
            IF lastGet[1].listings > 0 /\ lastGet[1].page < pages
            THEN lastGet'[1].idx = lastGet[1].idx
                 /\ lastGet'[1].page = lastGet[1].page + 1
            ELSE lastGet'[1].idx = lastGet[1].idx + 1
                 /\ lastGet'[1].page = 1]_vars

\* C9 witness: page 2 was requested after page 1 delivered listing entries
\* none of which added a price.
C9_Witness ==
    /\ lastGet # <<>>
    /\ lastGet[1].page = 2
    /\ calls.tried = <<1, 2>>
    /\ calls.failed = 0
    /\ lastGet[1].delayed
    /\ lastGet[1].kept = <<>>

\* C8: when the survey raises, the except block shows the error and the
\* session keeps the mapping and the time of the latest survey that returned
\* (the defaults and None when there was none); the price calculation shows
\* that mapping's value.
C8_FailureKeepsLastResult ==
    /\ handler = "except" =>
        /\ "error" \in sidebar
        /\ session["market_prices"] = lastGood.prices
        /\ session["last_scraped"] = lastGood.at
    /\ market_avg_price # <<>> => market_avg_price = <<lastGood.prices[locality]>>

\* C8 witness: a price is shown for a locality whose scraped value differs
\* from its default, after a survey returned and a later one raised.
C8_Witness ==
    /\ market_avg_price # <<>>
    /\ lastGood.failedSince
    /\ lastGood.at # <<>>
    /\ market_avg_price # <<TableDefault(locality)>>

\* C10: in a script run that left the button handler's try/except, on either
\* path, scraping_in_progress is False from there on and the "in progress"
\* notice is not shown.
C10_FlagClearedAfterHandler ==
    handler # "none" =>
        /\ session["scraping_in_progress"] = FALSE
        /\ "info" \notin sidebar

\* C10 witness: a run past the flag's check whose handler left through the
\* except block, in a session that had a successful survey before.
C10_Witness ==
    /\ handler = "except"
    /\ mpc = "calc"
    /\ lastGood.at # <<>>

====
